---- MODULE Spec2Model ----
(***************************************************************************)
(* Project-Folio: the optimistic mutation layer of ProjectCard (the        *)
(* client-allocated-identifier variant), its debounce scheduler, the       *)
(* unload flush, and the notes / commands / links routes it talks to;      *)
(* the projects reorder route, the toast list, the chat assistant and its  *)
(* route, and the temp-id variant of ProjectCard.                          *)
(***************************************************************************)
EXTENDS Integers, Sequences, FiniteSets, TLC

\* ------------------------------------------------------------------ bounds
TimeStep == 250       \* granularity of Tick
MaxEdits == 3         \* field edits (blur / select events) in one behaviour
MaxIds   == 3         \* identifiers crypto.randomUUID can hand out
MaxActs  == 2         \* user gestures in one behaviour, where the network is modelled
MaxOrder == 3         \* length of the orderedIds array of a reorder request
MaxToasts == 3        \* calls of showToast in one behaviour
ToastStep == 2500     \* granularity of the clock of the toast list
MaxChats == 2         \* requests the chat route receives in one behaviour
MaxAiActions == 1     \* actions in one answer of the assistant
MaxTempActs == 3      \* gestures on the temp-id card in one behaviour

\* ------------------------------------------------------- program constants
QuietPeriod == 500    \* setTimeout(..., 500) in debouncedSync
DisplayPeriod == 5000 \* setTimeout(..., 5000) in showToast

\* --------------------------------------------------------------- alphabet
NoteType    == <<"n", "o", "t", "e">>
CommandType == <<"c", "o", "m", "m", "a", "n", "d">>
Digits      == <<"1", "2", "3", "4", "5", "6", "7", "8", "9">>

\* crypto.randomUUID(): a token that itself contains dashes
Uuid(i) == <<"u", "-", Digits[i]>>
Uuids   == {Uuid(i) : i \in 1..MaxIds}

Texts  == {"a", "b"}     \* what is typed into a note
Lines  == {"a"}          \* what is typed into a command
Tags   == {"Bug"}

VARIABLES
  elapsed,         \* history: key -> time since its last edit (saturating)
  unloaded,        \* the page has been discarded
  notes,           \* project.notes     (Entity Store)
  commands,        \* project.commands  (Entity Store)
  links,           \* project.links     (Entity Store)
  allocated,       \* identifiers handed out so far
  debounceTimers,  \* debounceTimers.current : key -> timer handle
  pendingUpdates,  \* pendingUpdates.current : key -> {type, updates}
  hostTimers,      \* timeouts the host has scheduled and not yet run or cleared
  net,             \* every request the page has issued, with its progress
  toasts,          \* the notification sink: what showToast was handed, and
                   \* for which request (index of net)
  edits,           \* history: every field edit applied, with its time
  focus,           \* the focused Isolated* input and its local value, or NoFocus
  dbNotes,         \* server table notes     : id -> row
  dbCommands,      \* server table commands  : id -> row
  dbLinks,         \* server table links     : id -> row
  dbProjects,      \* server table projects  : id -> [user_id, sort_order, title]
  reorder,         \* the reorder request the route is handling, or Idle
  toastList,       \* ToastProvider: the toasts state (a list)
  toastTimers,     \* ToastProvider: the auto-remove timeouts still scheduled
  toastsShown,     \* history: how many times showToast has been called
  chat,            \* AIChatSidebar: the request of sendMessage and its answer
  tProject,        \* temp-id ProjectCard: the project in the store
  tCalls,          \* temp-id ProjectCard: every handler call, with its closure
                   \* and the progress of its request
  tPending         \* temp-id ProjectCard: pendingUpdates.current

vars == <<elapsed, unloaded, notes, commands, links, allocated, debounceTimers,
          pendingUpdates, hostTimers, net, toasts, edits, focus,
          dbNotes, dbCommands, dbLinks, dbProjects, reorder,
          toastList, toastTimers, toastsShown, chat,
          tProject, tCalls, tPending>>

storeVars  == <<notes, commands, links, allocated>>
schedVars  == <<debounceTimers, pendingUpdates, hostTimers>>
serverVars == <<dbNotes, dbCommands, dbLinks>>
reorderVars == <<dbProjects, reorder>>
toastVars   == <<toastList, toastTimers, toastsShown>>
chatVars    == <<chat>>
tempVars    == <<tProject, tCalls, tPending>>

\* ---------------------------------------------------------------- helpers
Range(f) == {f[x] : x \in DOMAIN f}

\* { ...p, ...u } : object spread, later fields win
Spread(p, u) ==
  [f \in (DOMAIN p) \cup (DOMAIN u) |-> IF f \in DOMAIN u THEN u[f] ELSE p[f]]

Empty == [f \in {} |-> "x"]

\* `${type}-${id}`
KeyOf(type, id) == type \o <<"-">> \o id

\* key.lastIndexOf('-')
LastIndexOfDash(key) ==
  IF \E i \in 1..Len(key) : key[i] = "-"
    THEN CHOOSE i \in 1..Len(key) :
           key[i] = "-" /\ \A j \in (i + 1)..Len(key) : key[j] # "-"
    ELSE 0

\* key.indexOf('-')
IndexOfDash(key) ==
  IF \E i \in 1..Len(key) : key[i] = "-"
    THEN CHOOSE i \in 1..Len(key) :
           key[i] = "-" /\ \A j \in 1..(i - 1) : key[j] # "-"
    ELSE 0

\* the second element of key.split('-'): what lies between the first dash
\* and the next one
KeyIdSplit(key) ==
  LET rest == SubSeq(key, IndexOfDash(key) + 1, Len(key))
  IN IF IndexOfDash(rest) = 0 THEN rest ELSE SubSeq(rest, 1, IndexOfDash(rest) - 1)

\* key.slice(0, firstDash) and key.slice(firstDash + 1)
KeyType(key) == SubSeq(key, 1, IndexOfDash(key) - 1)
KeyId(key)   == SubSeq(key, IndexOfDash(key) + 1, Len(key))

\* array.filter(x => x.id !== id)
FilterOut(s, id) == SelectSeq(s, LAMBDA x : x.id # id)

\* array.map(x => x.id === id ? r : x)
MapReplace(s, id, r) == [i \in DOMAIN s |-> IF s[i].id = id THEN r ELSE s[i]]

HasId(s, id) == \E i \in DOMAIN s : s[i].id = id

ById(s, id) == s[CHOOSE i \in DOMAIN s : s[i].id = id]

\* ------------------------------------------------------------ host timers
\* a clearTimeout that cancels nothing
ClearNothing(timers, handle) == timers

\* clearTimeout(handle)
ClearTimeout(timers, handle) == {t \in timers : t.handle # handle}

\* the handle setTimeout returns: one no live or remembered timer carries
FreshHandle ==
  CHOOSE h \in 1..(Cardinality(hostTimers) + Cardinality(DOMAIN debounceTimers) + 1) :
    /\ \A t \in hostTimers : t.handle # h
    /\ \A k \in DOMAIN debounceTimers : debounceTimers[k] # h

\* pendingUpdates.current[key]?.updates
PendingOf(key) ==
  IF key \in DOMAIN pendingUpdates THEN pendingUpdates[key].updates ELSE Empty

\* the new edit replaces what was pending instead of being merged into it
MergeOverwrite(prev, updates) == updates

\* { ...pendingUpdates.current[key]?.updates, ...updates }
MergePending(prev, updates) == Spread(prev, updates)

\* if (debounceTimers.current[key]) clearTimeout(debounceTimers.current[key])
CancelExisting(key) ==
  IF key \in DOMAIN debounceTimers
    THEN ClearTimeout(hostTimers, debounceTimers[key])
    ELSE hostTimers

\* debouncedSync(id, type, updates), up to and including setTimeout:
\* the three structures as the call leaves them
SyncPending(id, type, updates) ==
  LET key == KeyOf(type, id) IN
  [k \in (DOMAIN pendingUpdates) \cup {key} |->
     IF k = key
       THEN [type |-> type, updates |-> MergePending(PendingOf(key), updates)]
       ELSE pendingUpdates[k]]

SyncHost(id, type) ==
  LET key == KeyOf(type, id) IN
  CancelExisting(key) \cup
    {[handle |-> FreshHandle, key |-> key, type |-> type, id |-> id,
      left |-> QuietPeriod]}

SyncTimers(id, type) ==
  LET key == KeyOf(type, id) IN
  [k \in (DOMAIN debounceTimers) \cup {key} |->
     IF k = key THEN FreshHandle ELSE debounceTimers[k]]

DebouncedSync(id, type, updates) ==
  /\ pendingUpdates' = SyncPending(id, type, updates)
  /\ hostTimers'     = SyncHost(id, type)
  /\ debounceTimers' = SyncTimers(id, type)

\* ---------------------------------------------------------------- network
EndpointOf(type) == IF type = NoteType THEN "notes" ELSE "commands"

\* type === 'note' ? { note_id: id, ...updates } : { command_id: id, ...updates }
BodyOf(type, id, updates) ==
  IF type = NoteType
    THEN Spread([note_id |-> id], updates)
    ELSE Spread([command_id |-> id], updates)

\* a request leaving the page.  served: what the route answered;
\* client: what the page's promise did with it
Request(method, endpoint, body, via) ==
  [method |-> method, endpoint |-> endpoint, body |-> body, via |-> via,
   nedits |-> Len(edits), served |-> "none",
   client |-> IF via = "fetch" THEN "waiting" ELSE "none"]

\* showToast(message), called while handling request i
ShowToast(i, message) == toasts \cup {[req |-> i, message |-> message, type |-> "error"]}

\* --------------------------------------------------------- field edits
\* history: the edit, and how long after the previous edit of its key it came
\* (-1: the key was never edited before)
Gap(key) == IF key \in DOMAIN elapsed THEN elapsed[key] ELSE -1

Logged(type, id, updates) ==
  Append(edits, [key |-> KeyOf(type, id), type |-> type, id |-> id,
                 updates |-> updates, gap |-> Gap(KeyOf(type, id))])

Restarted(type, id) ==
  [k \in (DOMAIN elapsed) \cup {KeyOf(type, id)} |->
     IF k = KeyOf(type, id) THEN 0 ELSE elapsed[k]]

LogEdit(type, id, updates) ==
  /\ edits' = Logged(type, id, updates)
  /\ elapsed' = Restarted(type, id)

\* an updateNote that stops syncing once a write has failed
UpdateNoteHalted(id, updates) ==
  /\ notes' = MapReplace(notes, id, Spread(ById(notes, id), updates))
  /\ IF \E t \in toasts : net[t.req].method = "PATCH"
       THEN UNCHANGED <<pendingUpdates, hostTimers, debounceTimers>>
       ELSE DebouncedSync(id, NoteType, updates)
  /\ LogEdit(NoteType, id, updates)
  /\ UNCHANGED commands

\* updateNote(note, updates)
UpdateNote(id, updates) ==
  /\ notes' = MapReplace(notes, id, Spread(ById(notes, id), updates))
  /\ DebouncedSync(id, NoteType, updates)
  /\ LogEdit(NoteType, id, updates)
  /\ UNCHANGED commands

\* updateCommand(cmd, updates)
UpdateCommand(id, updates) ==
  /\ commands' = MapReplace(commands, id, Spread(ById(commands, id), updates))
  /\ DebouncedSync(id, CommandType, updates)
  /\ LogEdit(CommandType, id, updates)
  /\ UNCHANGED notes

NoFocus == [type |-> <<>>, id |-> <<>>, field |-> "", value |-> ""]

\* the Isolated* inputs a rendered card holds: one per note (content) and two
\* per command (command, description)
Inputs ==
  {[type |-> NoteType, id |-> notes[i].id, field |-> "content"] : i \in DOMAIN notes}
  \cup {[type |-> CommandType, id |-> commands[i].id, field |-> f] :
          i \in DOMAIN commands, f \in {"command", "description"}}

FocusedInput == [type |-> focus.type, id |-> focus.id, field |-> focus.field]

\* onSave(value) of the focused input: value => updateNote(note, { content: value })
\* or value => updateCommand(cmd, { command | description: value })
FocusUpdates ==
  IF focus.type = NoteType THEN [content |-> focus.value]
  ELSE IF focus.field = "command" THEN [command |-> focus.value]
  ELSE [description |-> focus.value]

OnSave ==
  IF focus.type = NoteType
    THEN UpdateNote(focus.id, FocusUpdates)
    ELSE UpdateCommand(focus.id, FocusUpdates)

\* onChange={e => setValue(e.target.value)} : typing into an Isolated* input
OnChange(el, v) ==
  /\ ~unloaded
  /\ el \in Inputs
  /\ focus = NoFocus
  /\ focus' = [type |-> el.type, id |-> el.id, field |-> el.field, value |-> v]
  /\ UNCHANGED <<elapsed, unloaded, storeVars, schedVars, net, toasts,
                 edits, serverVars,
                 reorderVars, toastVars,
                 chatVars, tempVars>>

\* onBlur={() => onSave(value)}
OnBlur ==
  /\ ~unloaded
  /\ focus # NoFocus
  /\ Len(edits) < MaxEdits
  /\ OnSave
  /\ focus' = NoFocus
  /\ UNCHANGED <<unloaded, links, allocated, net, toasts,
                 serverVars,
                 reorderVars, toastVars,
                 chatVars, tempVars>>

\* typing a value into an input and leaving it, in one step:
\* onChange (setValue) followed by onBlur (onSave(value))
EditText(el, v) ==
  /\ ~unloaded
  /\ focus = NoFocus
  /\ el \in Inputs
  /\ Len(edits) < MaxEdits
  /\ IF el.type = NoteType
       THEN UpdateNote(el.id, [content |-> v])
       ELSE UpdateCommand(el.id, IF el.field = "command" THEN [command |-> v]
                                                         ELSE [description |-> v])
  /\ UNCHANGED <<unloaded, links, allocated, net, toasts, focus,
                 serverVars,
                 reorderVars, toastVars,
                 chatVars, tempVars>>

\* the tag <select>: onChange={e => updateNote(note, { tag: e.target.value })}
TagOnChange(id, tag) ==
  /\ ~unloaded
  /\ focus = NoFocus
  /\ Len(edits) < MaxEdits
  /\ HasId(notes, id)
  /\ UpdateNote(id, [tag |-> tag])
  /\ UNCHANGED <<unloaded, links, allocated, net, toasts, focus,
                 serverVars,
                 reorderVars, toastVars,
                 chatVars, tempVars>>

\* drop one key of a map
Without(m, key) == [k \in (DOMAIN m) \ {key} |-> m[k]]

\* the callback forgets to delete the pending record
KeepPending(m, key) == m

\* delete pendingUpdates.current[key]
DropPending(m, key) == Without(m, key)

\* the callback forgets to delete the timer entry
KeepTimer(m, key) == m

\* delete debounceTimers.current[key]
DropTimer(m, key) == Without(m, key)

\* the setTimeout callback of debouncedSync, up to the await of fetch
TimerFire(t) ==
  /\ ~unloaded
  /\ t \in hostTimers
  /\ t.left = 0
  /\ hostTimers' = hostTimers \ {t}
  /\ IF t.key \notin DOMAIN pendingUpdates
       THEN UNCHANGED <<pendingUpdates, debounceTimers, net>>
       ELSE /\ pendingUpdates' = DropPending(pendingUpdates, t.key)
            /\ debounceTimers' = DropTimer(debounceTimers, t.key)
            /\ net' = Append(net,
                 Request("PATCH", EndpointOf(t.type),
                         BodyOf(t.type, t.id, pendingUpdates[t.key].updates),
                         "fetch"))
  /\ UNCHANGED <<elapsed, unloaded, storeVars, toasts, edits, focus,
                 serverVars,
                 reorderVars, toastVars,
                 chatVars, tempVars>>

\* time passes; a timeout that is due runs before the clock moves past it
Min(a, b) == IF a <= b THEN a ELSE b

\* the time to the nearest timeout, at most step
Advance(step) ==
  IF hostTimers = {} THEN step
  ELSE Min(step, CHOOSE d \in {t.left : t \in hostTimers} :
                   \A t \in hostTimers : d <= t.left)

\* time passes, by at most step; a timeout that is due runs first
Pass(step) ==
  /\ ~unloaded
  /\ \A t \in hostTimers : t.left > 0
  /\ hostTimers' = {[t EXCEPT !.left = t.left - Advance(step)] : t \in hostTimers}
  /\ elapsed' = [k \in DOMAIN elapsed |->
                   Min(elapsed[k] + Advance(step), QuietPeriod + 1)]
  /\ elapsed' # elapsed \/ hostTimers' # hostTimers
  /\ UNCHANGED <<unloaded, storeVars, debounceTimers, pendingUpdates, net,
                 toasts, edits, focus, serverVars,
                 reorderVars, toastVars,
                 chatVars, tempVars>>

Tick == Pass(TimeStep)

\* a whole quiet period passes (or the time to the nearest timeout)
Wait == Pass(QuietPeriod)

\* ---------------------------------------------------- structural operations
\* crypto.randomUUID()
RandomUUID ==
  Uuid(CHOOSE i \in 1..MaxIds :
         Uuid(i) \notin allocated /\ \A j \in 1..(i - 1) : Uuid(j) \in allocated)

CanAdd == ~unloaded /\ focus = NoFocus /\ Uuids \ allocated # {}

CanDelete == ~unloaded /\ focus = NoFocus

\* the records addNote / addCommand / addLink put into the store
NewNote(id)    == [id |-> id, tag |-> "Note", content |-> ""]
NewCommand(id) == [id |-> id, command |-> "", description |-> ""]
NewLink(id)    == [id |-> id, name |-> "New Link", link_type |-> "url"]

\* a create body that leaves the identifier to the database
NoteCreateBodyNoId(id) == [tag |-> "Note", content |-> ""]

\* the JSON bodies of their create calls
NoteCreateBody(id)    == [id |-> id, tag |-> "Note", content |-> ""]
CommandCreateBody(id) == [id |-> id, command |-> "", description |-> ""]
LinkCreateBody(id)    == [id |-> id, name |-> "New Link", link_type |-> "url"]

\* addNote()
AddNote ==
  /\ CanAdd
  /\ LET id == RandomUUID IN
       /\ allocated' = allocated \cup {id}
       /\ notes' = Append(notes, NewNote(id))
       /\ net' = Append(net, Request("POST", "notes", NoteCreateBody(id), "fetch"))
  /\ UNCHANGED <<elapsed, unloaded, commands, links, schedVars, toasts,
                 edits, focus, serverVars,
                 reorderVars, toastVars,
                 chatVars, tempVars>>

\* addCommand()
AddCommand ==
  /\ CanAdd
  /\ LET id == RandomUUID IN
       /\ allocated' = allocated \cup {id}
       /\ commands' = Append(commands, NewCommand(id))
       /\ net' = Append(net, Request("POST", "commands", CommandCreateBody(id), "fetch"))
  /\ UNCHANGED <<elapsed, unloaded, notes, links, schedVars, toasts,
                 edits, focus, serverVars,
                 reorderVars, toastVars,
                 chatVars, tempVars>>

\* addLink()
AddLink ==
  /\ CanAdd
  /\ LET id == RandomUUID IN
       /\ allocated' = allocated \cup {id}
       /\ links' = Append(links, NewLink(id))
       /\ net' = Append(net, Request("POST", "links", LinkCreateBody(id), "fetch"))
  /\ UNCHANGED <<elapsed, unloaded, notes, commands, schedVars, toasts,
                 edits, focus, serverVars,
                 reorderVars, toastVars,
                 chatVars, tempVars>>

\* a deleteNote that removes the note locally and sends nothing
DeleteNoteLocal(noteId) ==
  /\ CanDelete
  /\ HasId(notes, noteId)
  /\ notes' = FilterOut(notes, noteId)
  /\ UNCHANGED <<elapsed, unloaded, commands, links, allocated, schedVars, toasts,
                 edits, focus, net, serverVars, reorderVars, toastVars,
                 chatVars, tempVars>>

\* deleteNote(noteId)
DeleteNote(noteId) ==
  /\ CanDelete
  /\ HasId(notes, noteId)
  /\ notes' = FilterOut(notes, noteId)
  /\ net' = Append(net, Request("DELETE", "notes", [note_id |-> noteId], "fetch"))
  /\ UNCHANGED <<elapsed, unloaded, commands, links, allocated, schedVars, toasts,
                 edits, focus, serverVars,
                 reorderVars, toastVars,
                 chatVars, tempVars>>

\* deleteCommand(cmdId)
DeleteCommand(cmdId) ==
  /\ CanDelete
  /\ HasId(commands, cmdId)
  /\ commands' = FilterOut(commands, cmdId)
  /\ net' = Append(net, Request("DELETE", "commands", [command_id |-> cmdId], "fetch"))
  /\ UNCHANGED <<elapsed, unloaded, notes, links, allocated, schedVars, toasts,
                 edits, focus, serverVars,
                 reorderVars, toastVars,
                 chatVars, tempVars>>

\* updateLink(link, updates), from the link modal's onSave
UpdateLink(id, updates) ==
  /\ ~unloaded
  /\ focus = NoFocus
  /\ HasId(links, id)
  /\ links' = MapReplace(links, id, Spread(ById(links, id), updates))
  /\ net' = Append(net, Request("PATCH", "links", Spread([link_id |-> id], updates), "fetch"))
  /\ UNCHANGED <<elapsed, unloaded, notes, commands, allocated, schedVars, toasts,
                 edits, focus, serverVars,
                 reorderVars, toastVars,
                 chatVars, tempVars>>

\* deleteLink(linkId)
DeleteLink(linkId) ==
  /\ CanDelete
  /\ HasId(links, linkId)
  /\ links' = FilterOut(links, linkId)
  /\ net' = Append(net, Request("DELETE", "links", [link_id |-> linkId], "fetch"))
  /\ UNCHANGED <<elapsed, unloaded, notes, commands, allocated, schedVars, toasts,
                 edits, focus, serverVars,
                 reorderVars, toastVars,
                 chatVars, tempVars>>

\* ------------------------------------------------------------ unload flush
\* a loop that stops after the first entry
EntriesFirst(m, keys) ==
  IF keys = {} THEN <<>>
  ELSE LET k == CHOOSE x \in keys : TRUE
       IN <<[key |-> k, pending |-> m[k]]>>

\* Object.entries(pendingUpdates.current) as a list
RECURSIVE Entries(_, _)
Entries(m, keys) ==
  IF keys = {} THEN <<>>
  ELSE LET k == CHOOSE x \in keys : TRUE
       IN <<[key |-> k, pending |-> m[k]]>> \o Entries(m, keys \ {k})

\* navigator.sendBeacon(endpoint, blob) for one entry of pendingUpdates
Beacon(key, pending) ==
  Request("POST", EndpointOf(KeyType(key)),
          BodyOf(KeyType(key), KeyId(key), pending.updates), "beacon")

\* Object.values(debounceTimers.current).forEach(timer => clearTimeout(timer))
ClearAll(timers, handles) == {t \in timers : t.handle \notin handles}

\* the queue as it stood before the focused input was blurred
QueueBeforeBlur == pendingUpdates

\* document.activeElement.blur() runs first: onBlur -> onSave -> updateNote ->
\* debouncedSync puts the focused value into the queue the loop then reads
QueueAfterBlur ==
  IF focus # NoFocus THEN SyncPending(focus.id, focus.type, FocusUpdates)
                     ELSE pendingUpdates

\* flushPendingUpdates, the beforeunload listener
FlushPendingUpdates ==
  /\ ~unloaded
  /\ focus # NoFocus => Len(edits) < MaxEdits
  /\ LET blurred == focus # NoFocus
         pend  == QueueAfterBlur
         host  == IF blurred THEN SyncHost(focus.id, focus.type) ELSE hostTimers
         tmrs  == IF blurred THEN SyncTimers(focus.id, focus.type) ELSE debounceTimers
         sends == Entries(pend, DOMAIN pend)
     IN /\ IF blurred
             THEN IF focus.type = NoteType
                    THEN /\ notes' = MapReplace(notes, focus.id,
                                       Spread(ById(notes, focus.id), FocusUpdates))
                         /\ UNCHANGED commands
                    ELSE /\ commands' = MapReplace(commands, focus.id,
                                          Spread(ById(commands, focus.id), FocusUpdates))
                         /\ UNCHANGED notes
             ELSE UNCHANGED <<notes, commands>>
        /\ edits' = IF blurred THEN Logged(focus.type, focus.id, FocusUpdates)
                               ELSE edits
        /\ elapsed' = IF blurred THEN Restarted(focus.type, focus.id) ELSE elapsed
        /\ hostTimers' = ClearAll(host, Range(tmrs))
        /\ debounceTimers' = Empty
        /\ net' = net \o [i \in DOMAIN sends |-> Beacon(sends[i].key, sends[i].pending)]
        /\ pendingUpdates' = Empty
  /\ focus' = NoFocus
  /\ unloaded' = TRUE
  /\ UNCHANGED <<links, allocated, toasts, serverVars,
                 reorderVars, toastVars,
                 chatVars, tempVars>>

\* ----------------------------------------------------------------- routes
\* a row identifier the database generates itself (DEFAULT gen_random_uuid())
ServerUuid(n) == <<"s", "-", Digits[n]>>

GenRandomUuid(table) ==
  ServerUuid(CHOOSE n \in 1..(Cardinality(DOMAIN table) + 1) :
               ServerUuid(n) \notin DOMAIN table
               /\ \A j \in 1..(n - 1) : ServerUuid(j) \in DOMAIN table)

\* the fields of a body other than the named one: const { note_id, ...updates } = body
Rest(body, name) == [f \in (DOMAIN body) \ {name} |-> body[f]]

\* body.f || dflt
OrDefault(body, f, dflt) == IF f \in DOMAIN body /\ body[f] # "" THEN body[f] ELSE dflt

Insert(table, id, row) == [k \in (DOMAIN table) \cup {id} |-> IF k = id THEN row ELSE table[k]]

\* .update(fields).eq('id', id).select().single()
UpdateRow(table, id, fields) ==
  [k \in DOMAIN table |-> IF k = id THEN Spread(table[k], fields) ELSE table[k]]

\* the outcome of a route on a table: the table afterwards and the status
Outcome(table, ok) == [table |-> table, ok |-> ok]

\* notes/route.ts POST
NotesPOST(body) ==
  LET id  == IF "id" \in DOMAIN body THEN body.id ELSE GenRandomUuid(dbNotes)
      row == [tag |-> OrDefault(body, "tag", "Note"),
              content |-> OrDefault(body, "content", "")]
  IN IF id \in DOMAIN dbNotes
       THEN Outcome(dbNotes, FALSE)
       ELSE Outcome(Insert(dbNotes, id, row), TRUE)

\* notes/route.ts PATCH
NotesPATCH(body) ==
  IF "note_id" \in DOMAIN body /\ body.note_id \in DOMAIN dbNotes
    THEN Outcome(UpdateRow(dbNotes, body.note_id, Rest(body, "note_id")), TRUE)
    ELSE Outcome(dbNotes, FALSE)

\* notes/route.ts DELETE
NotesDELETE(body) == Outcome(Without(dbNotes, body.note_id), TRUE)

\* { command: body.command, description: body.description }, undefined dropped
CommandFields(body) ==
  [f \in (DOMAIN body) \cap {"command", "description"} |-> body[f]]

\* commands/route.ts PATCH
CommandsPATCH(body) ==
  IF "command_id" \in DOMAIN body /\ body.command_id \in DOMAIN dbCommands
    THEN Outcome(UpdateRow(dbCommands, body.command_id, CommandFields(body)), TRUE)
    ELSE Outcome(dbCommands, FALSE)

\* commands/route.ts POST
CommandsPOST(body) ==
  IF "command_id" \in DOMAIN body
    THEN CommandsPATCH(body)
    ELSE LET id  == IF "id" \in DOMAIN body THEN body.id ELSE GenRandomUuid(dbCommands)
             row == [command |-> OrDefault(body, "command", ""),
                     description |-> OrDefault(body, "description", "")]
         IN IF id \in DOMAIN dbCommands
              THEN Outcome(dbCommands, FALSE)
              ELSE Outcome(Insert(dbCommands, id, row), TRUE)

\* commands/route.ts DELETE
CommandsDELETE(body) == Outcome(Without(dbCommands, body.command_id), TRUE)

\* links/route.ts PATCH
LinksPATCH(body) ==
  IF "link_id" \in DOMAIN body /\ body.link_id \in DOMAIN dbLinks
    THEN Outcome(UpdateRow(dbLinks, body.link_id, Rest(body, "link_id")), TRUE)
    ELSE Outcome(dbLinks, FALSE)

\* links/route.ts POST
LinksPOST(body) ==
  IF "link_id" \in DOMAIN body
    THEN LinksPATCH(body)
    ELSE LET id  == IF "id" \in DOMAIN body THEN body.id ELSE GenRandomUuid(dbLinks)
             row == [name |-> OrDefault(body, "name", "New Link"),
                     link_type |-> OrDefault(body, "link_type", "url")]
         IN IF id \in DOMAIN dbLinks
              THEN Outcome(dbLinks, FALSE)
              ELSE Outcome(Insert(dbLinks, id, row), TRUE)

\* links/route.ts DELETE
LinksDELETE(body) == Outcome(Without(dbLinks, body.link_id), TRUE)

Route(r) ==
  IF r.endpoint = "notes"
    THEN (IF r.method = "POST" THEN NotesPOST(r.body)
          ELSE IF r.method = "PATCH" THEN NotesPATCH(r.body)
          ELSE NotesDELETE(r.body))
  ELSE IF r.endpoint = "commands"
    THEN (IF r.method = "POST" THEN CommandsPOST(r.body)
          ELSE IF r.method = "PATCH" THEN CommandsPATCH(r.body)
          ELSE CommandsDELETE(r.body))
  ELSE (IF r.method = "POST" THEN LinksPOST(r.body)
        ELSE IF r.method = "PATCH" THEN LinksPATCH(r.body)
        ELSE LinksDELETE(r.body))

\* served: "none" (not handled yet), "ok" (2xx), "err" (the route's storage
\* call failed: 500), "fault" (401, or the storage refused for another reason)
Served(i, status) == [net EXCEPT ![i].served = status]

Failed(r) == r.served \in {"err", "fault"}

\* the server runs the route of a request that reached it; requests are
\* handled in any order
ServerHandle(i) ==
  /\ i \in DOMAIN net
  /\ net[i].served = "none"
  /\ LET out == Route(net[i]) IN
       /\ net' = Served(i, IF out.ok THEN "ok" ELSE "err")
       /\ dbNotes'    = IF net[i].endpoint = "notes"    THEN out.table ELSE dbNotes
       /\ dbCommands' = IF net[i].endpoint = "commands" THEN out.table ELSE dbCommands
       /\ dbLinks'    = IF net[i].endpoint = "links"    THEN out.table ELSE dbLinks
  /\ UNCHANGED <<elapsed, unloaded, storeVars, schedVars, toasts, edits,
                 focus, reorderVars, toastVars,
                 chatVars, tempVars>>

\* the route answers 401 (authError || !user) or the storage call fails:
\* a non-success status and no row touched
ServerReject(i) ==
  /\ i \in DOMAIN net
  /\ net[i].served = "none"
  /\ net' = Served(i, "fault")
  /\ UNCHANGED <<elapsed, unloaded, storeVars, schedVars, toasts, edits,
                 focus, serverVars,
                 reorderVars, toastVars,
                 chatVars, tempVars>>

\* ------------------------------------------------------- projects reorder
\* the callers of the route (NoUser: no session) and the rows of projects
NoUser     == "none"
Users      == {"me", "other"}
ProjectIds == {"A", "B", "C", "X"}

\* request bodies: { orderedIds } with orderedIds an array of identifiers, or
\* something that is no array
Arrays == UNION {[1..n -> ProjectIds] : n \in 0..MaxOrder}
ReorderBodies ==
  {[isArray |-> TRUE, orderedIds |-> a] : a \in Arrays}
  \cup {[isArray |-> FALSE, orderedIds |-> <<>>]}

Idle == [state |-> "idle"]

\* a position that counts from one
ReorderUpdatesFromOne(orderedIds, user) ==
  [i \in DOMAIN orderedIds |->
     [id |-> orderedIds[i], sort_order |-> i, user_id |-> user]]

\* orderedIds.map((id, index) => supabase.from('projects')
\*   .update({ sort_order: index }).eq('id', id).eq('user_id', user.id))
ReorderUpdates(orderedIds, user) ==
  [i \in DOMAIN orderedIds |->
     [id |-> orderedIds[i], sort_order |-> i - 1, user_id |-> user]]

\* one such update on the table: the row with that id and that owner, if any
ApplyPosition(table, u) ==
  [p \in DOMAIN table |->
     IF p = u.id /\ table[p].user_id = u.user_id
       THEN [table[p] EXCEPT !.sort_order = u.sort_order]
       ELSE table[p]]

\* the answer of the route and the updates it has issued
Handling(body, user, status, updates) ==
  [state |-> IF status = 200 THEN "running" ELSE "done", status |-> status,
   orderedIds |-> body.orderedIds, user |-> user, updates |-> updates,
   left |-> DOMAIN updates, before |-> dbProjects]

\* POST /api/projects/reorder, up to await Promise.all(updates)
ReorderPOST(body, user) ==
  /\ reorder = Idle
  /\ reorder' =
       IF user = NoUser THEN Handling(body, user, 401, <<>>)
       ELSE IF ~body.isArray THEN Handling(body, user, 400, <<>>)
       ELSE Handling(body, user, 200, ReorderUpdates(body.orderedIds, user))
  /\ UNCHANGED <<elapsed, unloaded, storeVars, schedVars, net, toasts, edits,
                 focus, serverVars, dbProjects, toastVars,
                 chatVars, tempVars>>

\* one of the concurrently issued updates reaches the table
ReorderApply(i) ==
  /\ reorder.state = "running"
  /\ i \in reorder.left
  /\ dbProjects' = ApplyPosition(dbProjects, reorder.updates[i])
  /\ reorder' = [reorder EXCEPT !.left = @ \ {i}]
  /\ UNCHANGED <<elapsed, unloaded, storeVars, schedVars, net, toasts, edits,
                 focus, serverVars, toastVars,
                 chatVars, tempVars>>

\* Promise.all has settled: return NextResponse.json({ success: true })
ReorderRespond ==
  /\ reorder.state = "running"
  /\ reorder.left = {}
  /\ reorder' = [reorder EXCEPT !.state = "done"]
  /\ UNCHANGED <<elapsed, unloaded, storeVars, schedVars, net, toasts, edits,
                 focus, serverVars, dbProjects, toastVars,
                 chatVars, tempVars>>

\* ------------------------------------------------------ response handling
Debounced(r) == r.via = "fetch" /\ r.method = "PATCH" /\ r.endpoint \in {"notes", "commands"}

FailureMessage(r) ==
  IF r.method = "PATCH" /\ r.endpoint = "notes" THEN "Failed to save note"
  ELSE IF r.method = "PATCH" /\ r.endpoint = "commands" THEN "Failed to save command"
  ELSE IF r.method = "PATCH" THEN "Failed to sync link to server"
  ELSE IF r.method = "DELETE" THEN "Failed to sync delete to server"
  ELSE IF r.endpoint = "notes" THEN "Failed to sync note to server"
  ELSE IF r.endpoint = "commands" THEN "Failed to sync command to server"
  ELSE "Failed to sync link to server"

\* a debounced write that does not test res.ok
ToastOnResponseNever(r) == FALSE

\* what the page does when fetch resolves with a response: the debounced
\* write tests res.ok; add/delete calls attach .catch() only
ToastOnResponse(r) == Debounced(r) /\ Failed(r)

\* a response handler that puts the row the create call returned in place of
\* the entity it created
MergeResponse(list, endpoint, r) ==
  IF r.endpoint = endpoint /\ r.method = "POST" /\ r.served = "ok"
     /\ HasId(list, r.body.id)
    THEN MapReplace(list, r.body.id, r.body)
    ELSE list

\* a list of the store after the response to request r was handled: no
\* handler reads the response body ("don't update UI on response")
AfterResponse(list, endpoint, r) == list

\* the promise of fetch resolves (any status)
FetchResolve(i) ==
  /\ ~unloaded
  /\ i \in DOMAIN net
  /\ net[i].client = "waiting"
  /\ net[i].served # "none"
  /\ net' = [net EXCEPT ![i].client = "resolved"]
  /\ IF ToastOnResponse(net[i])
       THEN toasts' = ShowToast(i, FailureMessage(net[i]))
       ELSE UNCHANGED toasts
  /\ notes'    = AfterResponse(notes, "notes", net[i])
  /\ commands' = AfterResponse(commands, "commands", net[i])
  /\ links'    = AfterResponse(links, "links", net[i])
  /\ UNCHANGED <<elapsed, unloaded, allocated, schedVars, edits, focus, serverVars,
                 reorderVars, toastVars,
                 chatVars, tempVars>>

\* the promise of fetch rejects (network error): catch { showToast(...) }
FetchReject(i) ==
  /\ ~unloaded
  /\ i \in DOMAIN net
  /\ net[i].client = "waiting"
  /\ net' = [net EXCEPT ![i].client = "rejected"]
  /\ toasts' = ShowToast(i, FailureMessage(net[i]))
  /\ UNCHANGED <<elapsed, unloaded, storeVars, schedVars, edits, focus, serverVars,
                 reorderVars, toastVars,
                 chatVars, tempVars>>

\* ----------------------------------------------------------- toast list
\* what the callers hand to showToast: a message, and a type or the default
ToastCalls ==
  {[message |-> "Failed to sync note to server", type |-> "error"],
   [message |-> "Path copied", type |-> "success"]}

\* Math.random().toString(36).slice(2): the n-th call's token; two calls are
\* taken never to draw the same token
RandomToken(n) == <<"r", n>>

\* a filter that keeps the toast it was to remove, and drops the others
ToastFilterKeep(list, id) == SelectSeq(list, LAMBDA t : t.id = id)

\* prev.filter(t => t.id !== id)
ToastFilter(list, id) == SelectSeq(list, LAMBDA t : t.id # id)

\* showToast(message, type)
ShowToastCall(call) ==
  /\ toastsShown < MaxToasts
  /\ LET id == RandomToken(toastsShown + 1) IN
       /\ toastList' = Append(toastList,
                               [id |-> id, message |-> call.message, type |-> call.type])
       /\ toastTimers' = toastTimers \cup {[id |-> id, left |-> DisplayPeriod]}
  /\ toastsShown' = toastsShown + 1
  /\ UNCHANGED <<elapsed, unloaded, storeVars, schedVars, net, toasts, edits,
                 focus, serverVars, reorderVars,
                 chatVars, tempVars>>

\* the setTimeout callback of showToast
ToastExpire(t) ==
  /\ t \in toastTimers
  /\ t.left = 0
  /\ toastList' = ToastFilter(toastList, t.id)
  /\ toastTimers' = toastTimers \ {t}
  /\ UNCHANGED <<elapsed, unloaded, storeVars, schedVars, net, toasts, edits,
                 focus, serverVars, reorderVars, toastsShown,
                 chatVars, tempVars>>

\* dismissToast(id), from the button of a toast on screen
DismissToast(id) ==
  /\ \E i \in DOMAIN toastList : toastList[i].id = id
  /\ toastList' = ToastFilter(toastList, id)
  /\ UNCHANGED <<elapsed, unloaded, storeVars, schedVars, net, toasts, edits,
                 focus, serverVars, reorderVars, toastTimers, toastsShown,
                 chatVars, tempVars>>

\* the time to the nearest toast timeout, at most ToastStep
ToastAdvance ==
  Min(ToastStep, CHOOSE d \in {t.left : t \in toastTimers} :
                   \A t \in toastTimers : d <= t.left)

\* time passes while toasts are timed; a timeout that is due runs first
ToastTick ==
  /\ toastTimers # {}
  /\ \A t \in toastTimers : t.left > 0
  /\ toastTimers' = {[t EXCEPT !.left = t.left - ToastAdvance] : t \in toastTimers}
  /\ UNCHANGED <<elapsed, unloaded, storeVars, schedVars, net, toasts, edits,
                 focus, serverVars, reorderVars, toastList, toastsShown,
                 chatVars, tempVars>>

\* ------------------------------------------------------- chat assistant
\* the project whose card this model shows, as Dashboard holds it
CardProject == "A"

\* the projects state of Dashboard, handed to AIChatSidebar as a prop
Projects ==
  <<[id |-> CardProject, title |-> CardProject,
     notes |-> notes, commands |-> commands, links |-> links]>>

\* no request of the sidebar is under way (loading is false)
NoChat ==
  [state |-> "idle", projects |-> <<>>, data |-> <<>>, caller |-> NoUser, count |-> 0]

\* what the assistant may answer: actions that name their project by id
AiAction(type, p) == [type |-> type, project_id |-> p, title |-> "t", content |-> "a"]

AiActions ==
  {AiAction(t, p) : t \in {"update_project", "delete_project"}, p \in ProjectIds}
  \cup {AiAction(t, CardProject) : t \in {"add_note", "add_command", "search"}}

AiResponses == UNION {[1..n -> AiActions] : n \in 0..MaxAiActions}

\* request bodies a client may send: { message, projects }
ChatBodies ==
  {<<[id |-> p, title |-> p, notes |-> <<>>, commands |-> <<>>, links |-> <<>>]>> :
     p \in ProjectIds}

\* the rows of a table as the array a nested select returns
RowsOf(table) ==
  LET ids   == DOMAIN table
      order == CHOOSE s \in [1..Cardinality(ids) -> ids] :
                 \A i, j \in 1..Cardinality(ids) : i # j => s[i] # s[j]
  IN [i \in 1..Cardinality(ids) |-> Spread([id |-> order[i]], table[order[i]])]

\* .select(`*, notes (*), commands (*)`).single() on a project row
ProjectData(st, id) ==
  [id |-> id, title |-> st.projects[id].title,
   notes    |-> IF id = CardProject THEN RowsOf(st.notes) ELSE <<>>,
   commands |-> IF id = CardProject THEN RowsOf(st.commands) ELSE <<>>,
   links    |-> <<>>]

\* p.id === project.id ? { ...p, [field]: [...p[field], data] } : p
AppendTo(list, id, field, data) ==
  [i \in DOMAIN list |->
     IF list[i].id = id THEN [list[i] EXCEPT ![field] = Append(@, data)] ELSE list[i]]

\* the body of the loop over aiResponse.actions: st holds the tables and
\* updatedProjects (list); the project is looked up in updatedProjects, and
\* the update and the delete are filtered by id alone
ChatAction(st, action) ==
  LET found   == {i \in DOMAIN st.list : st.list[i].id = action.project_id}
      project == st.list[CHOOSE i \in found : \A j \in found : i <= j]
      exists  == project.id \in DOMAIN st.projects
      noteId  == GenRandomUuid(st.notes)
      note    == [tag |-> "Note", content |-> action.content]
      cmdId   == GenRandomUuid(st.commands)
      cmd     == [command |-> action.content, description |-> ""]
  IN
  IF found = {} \/ action.type = "search" THEN st
  ELSE IF action.type = "update_project" THEN
    (IF exists
       THEN LET after == [st EXCEPT !.projects =
                            UpdateRow(@, project.id, [title |-> action.title])]
            IN [after EXCEPT !.list =
                  MapReplace(@, project.id, ProjectData(after, project.id))]
       ELSE st)
  ELSE IF action.type = "delete_project" THEN
    [st EXCEPT !.projects = Without(@, project.id),
               !.notes    = IF project.id = CardProject THEN Empty ELSE @,
               !.commands = IF project.id = CardProject THEN Empty ELSE @,
               !.list     = FilterOut(@, project.id)]
  ELSE IF action.type = "add_note" THEN
    (IF exists
       THEN [st EXCEPT !.notes = Insert(@, noteId, note),
                       !.list  = AppendTo(@, project.id, "notes",
                                          Spread([id |-> noteId], note))]
       ELSE st)
  ELSE
    (IF exists
       THEN [st EXCEPT !.commands = Insert(@, cmdId, cmd),
                       !.list     = AppendTo(@, project.id, "commands",
                                             Spread([id |-> cmdId], cmd))]
       ELSE st)

\* for (const action of aiResponse.actions) { ... }
RECURSIVE ChatRun(_, _)
ChatRun(st, actions) ==
  IF actions = <<>> THEN st
  ELSE ChatRun(ChatAction(st, Head(actions)), Tail(actions))

\* POST /api/chat: 401 without a session, else the actions run on a copy of
\* the projects of the body and that copy is returned
ChatRoute(projects, user, actions) ==
  LET st == [projects |-> dbProjects, notes |-> dbNotes, commands |-> dbCommands,
             list |-> projects]
  IN IF user = NoUser THEN [status |-> 401, st |-> st]
     ELSE [status |-> 200, st |-> ChatRun(st, actions)]

\* sendMessage, up to the await of fetch: the body carries the projects prop
SendMessage ==
  /\ ~unloaded
  /\ chat.state = "idle"
  /\ chat.count < MaxChats
  /\ chat' = [chat EXCEPT !.state = "sent", !.projects = Projects,
                          !.count = @ + 1]
  /\ UNCHANGED <<elapsed, unloaded, storeVars, schedVars, net, toasts, edits,
                 focus, serverVars, reorderVars, toastVars, tempVars>>

\* the route handles the request of the sidebar
ChatServe(actions) ==
  /\ chat.state = "sent"
  /\ LET out == ChatRoute(chat.projects, "me", actions) IN
       /\ dbProjects' = out.st.projects
       /\ dbNotes'    = out.st.notes
       /\ dbCommands' = out.st.commands
       /\ chat' = [chat EXCEPT !.state = "answered", !.data = out.st.list,
                               !.caller = "me"]
  /\ UNCHANGED <<elapsed, unloaded, storeVars, schedVars, net, toasts, edits,
                 focus, dbLinks, reorder, toastVars, tempVars>>

\* the route answers the sidebar with a status other than 200 (the call of
\* the assistant fails)
ChatFault ==
  /\ chat.state = "sent"
  /\ chat' = [chat EXCEPT !.state = "failed"]
  /\ UNCHANGED <<elapsed, unloaded, storeVars, schedVars, net, toasts, edits,
                 focus, serverVars, reorderVars, toastVars, tempVars>>

\* the route handles a request of any client, whatever its body names
ChatPOST(body, user, actions) ==
  /\ chat.count < MaxChats
  /\ LET out == ChatRoute(body, user, actions) IN
       /\ dbProjects' = out.st.projects
       /\ dbNotes'    = out.st.notes
       /\ dbCommands' = out.st.commands
  /\ chat' = [chat EXCEPT !.caller = user, !.count = @ + 1]
  /\ UNCHANGED <<elapsed, unloaded, storeVars, schedVars, net, toasts, edits,
                 focus, dbLinks, reorder, toastVars, tempVars>>

\* the project of the card in a projects list, or a card with nothing in it
\* when the list no longer holds the project
CardOf(list) ==
  IF HasId(list, CardProject) THEN ById(list, CardProject)
  ELSE [id |-> CardProject, title |-> CardProject,
        notes |-> <<>>, commands |-> <<>>, links |-> <<>>]

\* sendMessage after the await: onProjectsUpdate(data.projects), which is
\* setProjects of Dashboard; a status other than 200 throws before it
ChatResolve ==
  /\ ~unloaded
  /\ chat.state \in {"answered", "failed"}
  /\ IF chat.state = "answered"
       THEN /\ notes'    = CardOf(chat.data).notes
            /\ commands' = CardOf(chat.data).commands
            /\ links'    = CardOf(chat.data).links
       ELSE UNCHANGED <<notes, commands, links>>
  /\ chat' = [chat EXCEPT !.state = "idle", !.projects = <<>>, !.data = <<>>]
  /\ UNCHANGED <<elapsed, unloaded, allocated, schedVars, net, toasts, edits,
                 focus, serverVars, reorderVars, toastVars, tempVars>>

\* --------------------------------------------- temp-id ProjectCard variant
\* the card that gives a new entity a provisional identifier and puts the
\* record of the server in its place when the create call answers.  Its
\* debounce timer is taken to fire at some later time.
TempPrefix == <<"t", "e", "m", "p", "-">>

\* `temp-${Date.now()}`: the n-th one; two calls are taken never to draw the
\* same number
TempId(n) == TempPrefix \o <<Digits[n]>>

\* id.startsWith('temp-')
StartsWithTemp(id) ==
  Len(id) >= Len(TempPrefix) /\ SubSeq(id, 1, Len(TempPrefix)) = TempPrefix

\* project.notes or project.commands
ListOf(type) == IF type = NoteType THEN "notes" ELSE "commands"

\* tempNote / tempCmd
TempNew(type, id) == IF type = NoteType THEN NewNote(id) ELSE NewCommand(id)

\* the project as loaded: the entities the server holds
TempProject ==
  [notes    |-> <<[id |-> Uuid(1), tag |-> "Note", content |-> ""]>>,
   commands |-> <<[id |-> Uuid(2), command |-> "", description |-> ""]>>]

NoData == [id |-> <<>>]

\* a call of a handler: what it was called with, the project prop its closure
\* holds, the request it made (state "local": none) and the answer
Call(kind, type, id, body, state) ==
  [kind |-> kind, type |-> type, id |-> id, body |-> body, project |-> tProject,
   state |-> state, data |-> NoData, toast |-> ""]

\* the request of a call as the routes see it
RequestOf(c) ==
  [method   |-> IF c.kind = "add" THEN "POST"
                ELSE IF c.kind = "delete" THEN "DELETE" ELSE "PATCH",
   endpoint |-> EndpointOf(c.type),
   body     |-> IF c.kind = "delete" THEN BodyOf(c.type, c.id, Empty) ELSE c.body]

\* the gestures of the user so far
TempActs == Cardinality({i \in DOMAIN tCalls : tCalls[i].kind # "patch"})

\* addNote / addCommand, up to the await of fetch
TempAdd(type) ==
  /\ TempActs < MaxTempActs
  /\ LET adds   == {i \in DOMAIN tCalls : tCalls[i].kind = "add"}
         tempId == TempId(Cardinality(adds) + 1) IN
       /\ tProject' = [tProject EXCEPT ![ListOf(type)] = Append(@, TempNew(type, tempId))]
       /\ tCalls' = Append(tCalls, Call("add", type, tempId, Empty, "sent"))
  /\ UNCHANGED <<elapsed, unloaded, storeVars, schedVars, net, toasts, edits,
                 focus, serverVars, reorderVars, toastVars, chatVars, tPending>>

\* debouncedSync(id, type, updates): the pending record after the merge
TempSync(id, type, updates) ==
  LET key  == KeyOf(type, id)
      prev == IF key \in DOMAIN tPending THEN tPending[key].updates ELSE Empty
  IN [k \in (DOMAIN tPending) \cup {key} |->
        IF k = key THEN [type |-> type, id |-> id, updates |-> MergePending(prev, updates)]
                   ELSE tPending[k]]

\* updateNote(note, updates) / updateCommand(cmd, updates)
TempUpdate(type, id, updates) ==
  /\ TempActs < MaxTempActs
  /\ HasId(tProject[ListOf(type)], id)
  /\ tProject' = [tProject EXCEPT ![ListOf(type)] =
                    MapReplace(@, id, Spread(ById(@, id), updates))]
  /\ tCalls' = Append(tCalls, Call("update", type, id, updates, "local"))
  /\ tPending' = IF StartsWithTemp(id) THEN tPending ELSE TempSync(id, type, updates)
  /\ UNCHANGED <<elapsed, unloaded, storeVars, schedVars, net, toasts, edits,
                 focus, serverVars, reorderVars, toastVars, chatVars>>

\* deleteNote(noteId) / deleteCommand(cmdId), up to the await of fetch
TempDelete(type, id) ==
  /\ TempActs < MaxTempActs
  /\ HasId(tProject[ListOf(type)], id)
  /\ tProject' = [tProject EXCEPT ![ListOf(type)] = FilterOut(@, id)]
  /\ tCalls' = Append(tCalls, Call("delete", type, id, Empty,
                                   IF StartsWithTemp(id) THEN "local" ELSE "sent"))
  /\ UNCHANGED <<elapsed, unloaded, storeVars, schedVars, net, toasts, edits,
                 focus, serverVars, reorderVars, toastVars, chatVars, tPending>>

\* the setTimeout callback of debouncedSync, up to the await of fetch
TempTimerFire(key) ==
  /\ key \in DOMAIN tPending
  /\ tCalls' = Append(tCalls,
       Call("patch", tPending[key].type, tPending[key].id,
            BodyOf(tPending[key].type, tPending[key].id, tPending[key].updates), "sent"))
  /\ tPending' = Without(tPending, key)
  /\ UNCHANGED <<elapsed, unloaded, storeVars, schedVars, net, toasts, edits,
                 focus, serverVars, reorderVars, toastVars, chatVars, tProject>>

\* the row a create call is answered with: .insert(...).select().single()
CreatedRow(c) ==
  IF c.type = NoteType THEN NewNote(GenRandomUuid(dbNotes))
                       ELSE NewCommand(GenRandomUuid(dbCommands))

\* the server runs the route of a call's request
TempServe(i) ==
  /\ i \in DOMAIN tCalls
  /\ tCalls[i].state = "sent"
  /\ LET c   == tCalls[i]
         out == Route(RequestOf(c)) IN
       /\ dbNotes'    = IF c.type = NoteType THEN out.table ELSE dbNotes
       /\ dbCommands' = IF c.type = NoteType THEN dbCommands ELSE out.table
       /\ tCalls' = [tCalls EXCEPT
                       ![i].state = IF out.ok THEN "ok" ELSE "failed",
                       ![i].data  = IF out.ok /\ c.kind = "add"
                                      THEN CreatedRow(c)
                                      ELSE NoData]
  /\ UNCHANGED <<elapsed, unloaded, storeVars, schedVars, net, toasts, edits,
                 focus, dbLinks, reorderVars, toastVars, chatVars, tProject, tPending>>

\* the route answers a failure status, or the request never arrives
TempFault(i) ==
  /\ i \in DOMAIN tCalls
  /\ tCalls[i].state = "sent"
  /\ tCalls' = [tCalls EXCEPT ![i].state = "failed"]
  /\ UNCHANGED <<elapsed, unloaded, storeVars, schedVars, net, toasts, edits,
                 focus, serverVars, reorderVars, toastVars, chatVars, tProject, tPending>>

\* what the handler says when its call failed
TempMessage(c) ==
  IF c.kind = "add" THEN "Failed to create"
  ELSE IF c.kind = "delete" THEN "Failed to delete" ELSE "Failed to save"

\* the handler after its await: addNote puts the record of the server in the
\* place of the provisional one, or removes the provisional one on failure
\* (both on the project as it is now); deleteNote on failure hands onUpdate
\* { ...project, notes: originalNotes }, where project is the prop of its
\* closure and originalNotes a copy of that project's notes
TempSettle(i) ==
  /\ i \in DOMAIN tCalls
  /\ tCalls[i].state \in {"ok", "failed"}
  /\ LET c    == tCalls[i]
         list == ListOf(c.type) IN
       /\ tProject' =
            IF c.kind = "add" /\ c.state = "ok"
              THEN [tProject EXCEPT ![list] = MapReplace(@, c.id, c.data)]
            ELSE IF c.kind = "add"
              THEN [tProject EXCEPT ![list] = FilterOut(@, c.id)]
            ELSE IF c.kind = "delete" /\ c.state = "failed"
              THEN Spread(c.project, [l \in {list} |-> c.project[list]])
            ELSE tProject
       /\ tCalls' = [tCalls EXCEPT
                       ![i].state = "done",
                       ![i].toast = IF c.state = "failed" THEN TempMessage(c) ELSE ""]
  /\ UNCHANGED <<elapsed, unloaded, storeVars, schedVars, net, toasts, edits,
                 focus, serverVars, reorderVars, toastVars, chatVars, tPending>>

\* ------------------------------------------------------------------- init
\* a project as the collaborator seeds it: one empty note, one empty command
Init ==
  /\ elapsed = Empty
  /\ unloaded = FALSE
  /\ notes = <<[id |-> Uuid(1), tag |-> "Note", content |-> ""]>>
  /\ commands = <<[id |-> Uuid(2), command |-> "", description |-> ""]>>
  /\ links = <<>>
  /\ allocated = {Uuid(1), Uuid(2)}
  /\ debounceTimers = Empty
  /\ pendingUpdates = Empty
  /\ hostTimers = {}
  /\ net = <<>>
  /\ toasts = {}
  /\ edits = <<>>
  /\ focus = NoFocus
  /\ dbNotes = (Uuid(1) :> [tag |-> "Note", content |-> ""])
  /\ dbCommands = (Uuid(2) :> [command |-> "", description |-> ""])
  /\ dbLinks = Empty
  /\ dbProjects = [p \in ProjectIds |->
                     IF p = "A" THEN [user_id |-> "me", sort_order |-> 0, title |-> p]
                     ELSE IF p = "B" THEN [user_id |-> "me", sort_order |-> 1, title |-> p]
                     ELSE IF p = "C" THEN [user_id |-> "me", sort_order |-> 2, title |-> p]
                     ELSE [user_id |-> "other", sort_order |-> 0, title |-> p]]
  /\ reorder = Idle
  /\ toastList = <<>>
  /\ toastTimers = {}
  /\ toastsShown = 0
  /\ chat = NoChat
  /\ tProject = TempProject
  /\ tCalls = <<>>
  /\ tPending = Empty

InputIds == {Uuid(i) : i \in 1..MaxIds}
InputEls ==
  {[type |-> NoteType, id |-> u, field |-> "content"] : u \in InputIds}
  \cup {[type |-> CommandType, id |-> u, field |-> f] :
          u \in InputIds, f \in {"command", "description"}}

\* the debounce scheduler on its own: edits, timers, the clock and the unload
\* the inputs the user types into: a note's content, a command's command
TextEls == {el \in InputEls : el.field # "description"}

NextSched ==
  \/ \E el \in TextEls, v \in Texts :
       (el.type = CommandType => v \in Lines) /\ EditText(el, v)
  \/ \E id \in InputIds, g \in Tags : TagOnChange(id, g)
  \/ \E t \in hostTimers : TimerFire(t)
  \/ Tick
  \/ FlushPendingUpdates

SpecSched == Init /\ [][NextSched]_vars

\* the card with its structural operations, the network and the routes;
\* the user makes at most MaxActs gestures
Acts ==
  Len(edits) + Cardinality({i \in DOMAIN net :
                              /\ net[i].via = "fetch"
                              /\ net[i].method = "PATCH" => net[i].endpoint = "links"})

MayAct == Acts < MaxActs

NextCard ==
  \/ MayAct /\ AddNote
  \/ MayAct /\ AddCommand
  \/ MayAct /\ AddLink
  \/ \E id \in InputIds : MayAct /\ DeleteNote(id)
  \/ \E id \in InputIds : MayAct /\ DeleteCommand(id)
  \/ \E id \in InputIds : MayAct /\ DeleteLink(id)
  \/ \E id \in InputIds : MayAct /\ UpdateLink(id, [name |-> "a", link_type |-> "url"])
  \/ \E el \in TextEls : MayAct /\ EditText(el, "a")
  \/ \E t \in hostTimers : TimerFire(t)
  \/ Wait
  \/ \E i \in DOMAIN net : ServerHandle(i)
  \/ \E i \in DOMAIN net : ServerReject(i)
  \/ \E i \in DOMAIN net : FetchResolve(i)
  \/ \E i \in DOMAIN net : FetchReject(i)

SpecCard == Init /\ [][NextCard]_vars

\* the unload flush: typing, leaving a field, the tag select, the timers, the
\* clock, and the beforeunload listener
NextFlush ==
  \/ \E el \in TextEls, v \in Texts :
       (el.type = CommandType => v \in Lines) /\ OnChange(el, v)
  \/ OnBlur
  \/ \E id \in InputIds, g \in Tags : TagOnChange(id, g)
  \/ \E t \in hostTimers : TimerFire(t)
  \/ Tick
  \/ FlushPendingUpdates

SpecFlush == Init /\ [][NextFlush]_vars

\* the reorder route handling one request
NextReorder ==
  \/ \E body \in ReorderBodies, user \in Users \cup {NoUser} : ReorderPOST(body, user)
  \/ \E i \in 1..MaxOrder : ReorderApply(i)
  \/ ReorderRespond

SpecReorder == Init /\ [][NextReorder]_vars

\* the toast list: calls of showToast, the dismiss button, the timeouts and
\* the clock; the host runs every timeout it has scheduled
NextToast ==
  \/ \E call \in ToastCalls : ShowToastCall(call)
  \/ \E t \in toastTimers : ToastExpire(t)
  \/ \E n \in 1..MaxToasts : DismissToast(RandomToken(n))
  \/ ToastTick

SpecToast ==
  /\ Init /\ [][NextToast]_vars
  /\ WF_vars(ToastTick)
  /\ WF_vars(\E t \in toastTimers : ToastExpire(t))

\* the chat assistant beside the card: the user adds, edits and deletes
\* while a request of the sidebar is under way, and the route also serves
\* requests of other clients
NextChat ==
  \/ MayAct /\ AddNote
  \/ \E id \in InputIds : MayAct /\ DeleteNote(id)
  \/ \E el \in TextEls : MayAct /\ EditText(el, "a")
  \/ \E t \in hostTimers : TimerFire(t)
  \/ Wait
  \/ SendMessage
  \/ \E actions \in AiResponses : ChatServe(actions)
  \/ ChatFault
  \/ \E body \in ChatBodies, user \in Users \cup {NoUser}, actions \in AiResponses :
       ChatPOST(body, user, actions)
  \/ ChatResolve

SpecChat == Init /\ [][NextChat]_vars

\* the writes of the card and the routes that receive them: edits, the
\* timers, the clock, the unload flush, and the server handling what was
\* sent in any order
NextSync ==
  \/ \E el \in TextEls, v \in Texts :
       (el.type = CommandType => v \in Lines) /\ EditText(el, v)
  \/ \E t \in hostTimers : TimerFire(t)
  \/ Wait
  \/ FlushPendingUpdates
  \/ \E i \in DOMAIN net : ServerHandle(i)
  \/ \E i \in DOMAIN net : FetchResolve(i)

SpecSync == Init /\ [][NextSync]_vars

\* the temp-id card: adding, editing and deleting notes and commands while
\* calls are under way, the routes, and the handlers after their await
TempTypes == {NoteType, CommandType}

TempIds == Uuids \cup {TempId(n) : n \in 1..MaxTempActs}
             \cup {ServerUuid(n) : n \in 1..MaxTempActs}

TempEdit(type) == IF type = NoteType THEN [content |-> "a"] ELSE [command |-> "a"]

NextTemp ==
  \/ \E type \in TempTypes : TempAdd(type)
  \/ \E type \in TempTypes, id \in TempIds : TempUpdate(type, id, TempEdit(type))
  \/ \E type \in TempTypes, id \in TempIds : TempDelete(type, id)
  \/ \E key \in DOMAIN tPending : TempTimerFire(key)
  \/ \E i \in DOMAIN tCalls : TempServe(i)
  \/ \E i \in DOMAIN tCalls : TempFault(i)
  \/ \E i \in DOMAIN tCalls : TempSettle(i)

SpecTemp == Init /\ [][NextTemp]_vars

\* ====================================================================
\* Properties.  They are stated over the two histories the model keeps:
\* edits (what the user changed, and how long after the previous change of
\* the same key) and net (what left the page).
\* ====================================================================

\* the debounced writes the timer path has issued
TimerWrites == {w \in DOMAIN net : net[w].via = "fetch" /\ net[w].method = "PATCH"
                                   /\ net[w].endpoint \in {"notes", "commands"}}

\* what an update write addresses, and the fields it carries
TargetOf(r)  ==
  IF r.endpoint = "notes" THEN r.body.note_id
  ELSE IF r.endpoint = "commands" THEN r.body.command_id
  ELSE r.body.link_id
FieldsOf(r)  == IF r.endpoint = "notes" THEN Rest(r.body, "note_id")
                                        ELSE Rest(r.body, "command_id")
Addresses(r, e) == r.endpoint = EndpointOf(e.type) /\ TargetOf(r) = e.id

SameKey(i, j) == edits[i].type = edits[j].type /\ edits[i].id = edits[j].id

\* the next edit of the same key after edit i (0: there is none)
NextEdit(i) ==
  IF \E m \in (i + 1)..Len(edits) : SameKey(i, m)
    THEN CHOOSE m \in (i + 1)..Len(edits) :
           SameKey(i, m) /\ \A n \in (i + 1)..(m - 1) : ~SameKey(i, n)
    ELSE 0

\* edit i came more than a quiet period after the previous edit of its key
Apart(i) == edits[i].gap = -1 \/ edits[i].gap > QuietPeriod

\* edit i came less than a quiet period after the previous edit of its key
Close(i) == edits[i].gap >= 0 /\ edits[i].gap < QuietPeriod

\* a quiet period has gone by after edit j with no further edit of its key
Quiet(j) ==
  IF NextEdit(j) = 0
    THEN elapsed[edits[j].key] > QuietPeriod
    ELSE edits[NextEdit(j)].gap > QuietPeriod

\* the edits of one key from i to j
Run(i, j) == {m \in i..j : SameKey(i, m)}

\* edits i..j of one key form a sequence that starts after a quiet period, in
\* which each edit comes less than a quiet period after the one before, and
\* after which the quiet period has elapsed
Burst(i, j) ==
  /\ i <= j
  /\ Apart(i)
  /\ SameKey(i, j)
  /\ \A m \in Run(i, j) \ {i} : Close(m)
  /\ Quiet(j)

\* the timer-path writes for the key of edit i issued from edit i on and
\* before the edit that follows edit j
WritesOf(i, j) ==
  {w \in TimerWrites :
     /\ Addresses(net[w], edits[i])
     /\ net[w].nedits >= i
     /\ NextEdit(j) # 0 => net[w].nedits < NextEdit(j)}

\* the latest value each field was given by the edits of a set
LatestOf(ms) ==
  [f \in UNION {DOMAIN edits[m].updates : m \in ms} |->
     LET last == CHOOSE m \in ms :
                   /\ f \in DOMAIN edits[m].updates
                   /\ \A n \in ms : (n > m) => f \notin DOMAIN edits[n].updates
     IN edits[last].updates[f]]

\* C1: coalescing law.  Every sequence of edits of one key in which each edit
\* comes less than a quiet period after the previous one is followed, once the
\* quiet period has elapsed, by exactly one network write for that key, and
\* its body is the field-wise merge of the edits, the latest value of each
\* field winning.
C1_Coalescing ==
  \A i \in DOMAIN edits : \A j \in i..Len(edits) :
    Burst(i, j) =>
      /\ Cardinality(WritesOf(i, j)) = 1
      /\ \A w \in WritesOf(i, j) :
           /\ FieldsOf(net[w]) = LatestOf(Run(i, j))
           /\ net[w].nedits >= j

\* three edits of one note, two of them to the same field and one to another,
\* all within the quiet period, and their single merged write has gone out
C1_Witness ==
  \E i \in DOMAIN edits : \E j \in i..Len(edits) :
    /\ Burst(i, j)
    /\ Cardinality(Run(i, j)) = 3
    /\ \E w \in WritesOf(i, j) : FieldsOf(net[w]) = [content |-> "b", tag |-> "Bug"]
    /\ \E m \in Run(i, j) : edits[m].updates = [content |-> "a"]

\* C2: no under-coalescing.  Edits of one key that each come more than a
\* quiet period after the previous one are written one by one: each is
\* followed by exactly one write carrying that edit's fields only, so N such
\* edits give N writes.
C2_NoUnderCoalescing ==
  /\ \A i \in DOMAIN edits :
       Burst(i, i) =>
         /\ Cardinality(WritesOf(i, i)) = 1
         /\ \A w \in WritesOf(i, i) : FieldsOf(net[w]) = edits[i].updates
  /\ \A i \in DOMAIN edits :
       (\A m \in DOMAIN edits : SameKey(i, m) => Burst(m, m)) =>
         Cardinality({w \in TimerWrites : Addresses(net[w], edits[i])})
           = Cardinality({m \in DOMAIN edits : SameKey(i, m)})

\* two edits of one key to different fields, more than a quiet period apart,
\* and two writes for that key
C2_Witness ==
  \E i \in DOMAIN edits : \E j \in (i + 1)..Len(edits) :
    /\ SameKey(i, j)
    /\ Burst(i, i) /\ Burst(j, j)
    /\ DOMAIN edits[i].updates # DOMAIN edits[j].updates
    /\ Cardinality({w \in TimerWrites : Addresses(net[w], edits[i])}) = 2

\* C3: at most one live debounce timer per key; a debouncedSync call on a key
\* that has a timer replaces it.
C3_OneTimerPerKey ==
  /\ \A t1, t2 \in hostTimers : t1.key = t2.key => t1 = t2
  /\ \A t \in hostTimers :
       t.key \in DOMAIN debounceTimers /\ debounceTimers[t.key] = t.handle

\* a key edited a second time while its timer was running: one timer, restarted
C3_Witness ==
  \E m \in DOMAIN edits :
    /\ Close(m)
    /\ NextEdit(m) = 0
    /\ \E t \in hostTimers : t.key = edits[m].key /\ t.left = QuietPeriod
    /\ Cardinality(hostTimers) = 2

\* --------------------------------------------------------------- the card
Creates == {i \in DOMAIN net : net[i].via = "fetch" /\ net[i].method = "POST"}
Deletes == {i \in DOMAIN net : net[i].via = "fetch" /\ net[i].method = "DELETE"}
Updates == {i \in DOMAIN net : net[i].via = "fetch" /\ net[i].method = "PATCH"}

\* the identifier a delete call names in its query string
DeletedId(r) ==
  IF r.endpoint = "notes" THEN r.body.note_id
  ELSE IF r.endpoint = "commands" THEN r.body.command_id
  ELSE r.body.link_id

StoreOf(endpoint) ==
  IF endpoint = "notes" THEN notes
  ELSE IF endpoint = "commands" THEN commands ELSE links

IdsOf(list) == {list[i].id : i \in DOMAIN list}

\* the page has seen request i fail: a non-success status came back, or the
\* call itself failed
SeenFailed(i) ==
  \/ net[i].client = "resolved" /\ Failed(net[i])
  \/ net[i].client = "rejected"

Reported(i) == \E t \in toasts : t.req = i

\* C4: deleting a note or command while a debounced write for it is pending
\* cancels the timer and drops the queued mutation: once the delete call for
\* an entity has been issued, the timer path issues no update write addressed
\* to that entity.
C4_NoWriteAfterDelete ==
  \A d \in Deletes : \A w \in TimerWrites :
    (net[w].endpoint = net[d].endpoint /\ TargetOf(net[w]) = DeletedId(net[d]))
      => w < d

\* the identifiers the project was loaded with
LoadedIds(endpoint) ==
  IF endpoint = "notes" THEN {Uuid(1)}
  ELSE IF endpoint = "commands" THEN {Uuid(2)} ELSE {}

CreatedIds(endpoint) == {net[i].body.id : i \in {c \in Creates : net[c].endpoint = endpoint}}
RemovedIds(endpoint) == {DeletedId(net[i]) : i \in {d \in Deletes : net[d].endpoint = endpoint}}

\* C5: identifier stability.  The identifier addNote / addCommand / addLink
\* allocates is the one sent in the create body and the one the entity carries
\* in the store for as long as it is there, whatever responses arrive; every
\* later update or delete write names an identifier the client allocated.
C5_IdentifierStable ==
  /\ \A c \in Creates : "id" \in DOMAIN net[c].body /\ net[c].body.id \in allocated
  /\ \A e \in {"notes", "commands", "links"} :
       IdsOf(StoreOf(e)) = (LoadedIds(e) \cup CreatedIds(e)) \ RemovedIds(e)
  /\ \A w \in Updates :
       TargetOf(net[w]) \in LoadedIds(net[w].endpoint) \cup CreatedIds(net[w].endpoint)
  /\ \A d \in Deletes :
       DeletedId(net[d]) \in LoadedIds(net[d].endpoint) \cup CreatedIds(net[d].endpoint)

\* a note was added and edited; its create call has been answered and its
\* update write names the identifier it was given
C5_Witness ==
  \E c \in Creates : \E w \in TimerWrites :
    /\ net[c].endpoint = "notes" /\ net[w].endpoint = "notes"
    /\ net[c].client = "resolved"
    /\ TargetOf(net[w]) = net[c].body.id
    /\ HasId(notes, net[c].body.id)
    /\ ById(notes, net[c].body.id).content = "a"

\* C6: a note is created and edited before the create call resolves: the
\* update call names the note's identifier and succeeds in whatever order the
\* server completes the two calls.
C6_UpdateSucceedsAnyOrder ==
  \A c \in Creates : \A w \in TimerWrites :
    (/\ net[c].endpoint = "notes" /\ net[w].endpoint = "notes"
     /\ TargetOf(net[w]) = net[c].body.id
     /\ net[c].served # "fault"
     /\ net[c].body.id \notin RemovedIds("notes"))
      => net[w].served # "err"

\* C7: when a create call fails (network error or non-success status) the
\* provisional entity is removed from the store and an error is reported.
C7_CreateFailureRemoves ==
  \A c \in Creates :
    SeenFailed(c) =>
      /\ net[c].body.id \notin IdsOf(StoreOf(net[c].endpoint))
      /\ Reported(c)

\* the value the store shows for field f of the entity edit m names
Shown(m, f) == ById(StoreOf(EndpointOf(edits[m].type)), edits[m].id)[f]

\* the edits of the key of edit m
AllOf(m) == {n \in DOMAIN edits : SameKey(m, n)}

\* C8: when a debounced field-update write fails (non-success status or
\* network error) a notification is emitted for it and the optimistic value
\* stays in the store: every field of the entity still shows the latest value
\* the user gave it.
C8_UpdateFailureKeepsValue ==
  \A w \in TimerWrites :
    SeenFailed(w) =>
      /\ Cardinality({t \in toasts : t.req = w}) = 1
      /\ \A m \in DOMAIN edits :
           (Addresses(net[w], edits[m]) /\ HasId(StoreOf(net[w].endpoint), edits[m].id))
             => \A f \in DOMAIN LatestOf(AllOf(m)) : Shown(m, f) = LatestOf(AllOf(m))[f]

\* a write of a note's content was answered with a non-success status: the
\* note still shows the typed text and the failure was notified
C8_Witness ==
  \E w \in TimerWrites :
    /\ net[w].endpoint = "notes"
    /\ net[w].client = "resolved" /\ Failed(net[w])
    /\ Reported(w)
    /\ HasId(notes, TargetOf(net[w]))
    /\ ById(notes, TargetOf(net[w])).content = "a"

\* C9: when a delete call fails the failure is reported to the user and the
\* entity stays removed from the store.
C9_DeleteFailureReported ==
  \A d \in Deletes :
    SeenFailed(d) =>
      /\ DeletedId(net[d]) \notin IdsOf(StoreOf(net[d].endpoint))
      /\ Reported(d)

\* ---------------------------------------------------------------- unload
Beacons == {b \in DOMAIN net : net[b].via = "beacon"}

\* the edits of the key of edit m that no timer-path write has carried
Unsent(m) ==
  {n \in AllOf(m) : \A w \in TimerWrites : Addresses(net[w], edits[m]) => net[w].nedits < n}

\* what a teardown-safe send for the key of edit m must carry
FlushBody(m) ==
  IF edits[m].type = NoteType
    THEN Spread([note_id |-> edits[m].id], LatestOf(Unsent(m)))
    ELSE Spread([command_id |-> edits[m].id], LatestOf(Unsent(m)))

\* C10: unload flush.  After the teardown hook has run no timer and no
\* pending mutation remain, and for each key that had edits not yet written
\* exactly one teardown-safe send was made, carrying the entity key and the
\* merge of those edits; nothing else was sent that way.
C10_UnloadFlush ==
  unloaded =>
    /\ hostTimers = {}
    /\ debounceTimers = Empty
    /\ pendingUpdates = Empty
    /\ \A m \in DOMAIN edits :
         Unsent(m) # {} =>
           Cardinality({b \in Beacons :
                          /\ net[b].method = "POST"
                          /\ net[b].endpoint = EndpointOf(edits[m].type)
                          /\ net[b].body = FlushBody(m)}) = 1
    /\ Cardinality(Beacons) =
         Cardinality({edits[m].key : m \in {n \in DOMAIN edits : Unsent(n) # {}}})

\* C11: at teardown the focused field is blurred before the queue is drained:
\* when the hook runs while an input holds an uncommitted value, the sends of
\* that same flush include one for that input's entity carrying that value.
C11_BlurBeforeDrain ==
  [][(~unloaded /\ unloaded' /\ focus # NoFocus) =>
       \E b \in (DOMAIN net') \ (DOMAIN net) :
         /\ net'[b].via = "beacon"
         /\ net'[b].endpoint = EndpointOf(focus.type)
         /\ TargetOf(net'[b]) = focus.id
         /\ focus.field \in DOMAIN FieldsOf(net'[b])
         /\ FieldsOf(net'[b])[focus.field] = focus.value]_vars

\* the page was unloaded while the note's input held "b" and a tag change was
\* pending: the send carries both, and the blur was logged as the last edit
C11_Witness ==
  /\ unloaded
  /\ \E b \in Beacons :
       /\ net[b].nedits = Len(edits) - 1
       /\ net[b].body = [note_id |-> Uuid(1), tag |-> "Bug", content |-> "b"]
  /\ edits[Len(edits)].updates = [content |-> "b"]

\* the page was unloaded half a quiet period after the last of two edits of a
\* note, with an edit of a command pending too: two sends, the note's merged
C10_Witness ==
  /\ unloaded
  /\ Cardinality(Beacons) = 2
  /\ \E b \in Beacons :
       net[b].body = [note_id |-> Uuid(1), content |-> "a", tag |-> "Bug"]
  /\ \E k \in DOMAIN elapsed : elapsed[k] > 0 /\ elapsed[k] < QuietPeriod

\* ------------------------------------------------------------- reorder
Distinct(a) == \A i, j \in DOMAIN a : i # j => a[i] # a[j]

\* every identifier of the array is a project of the caller
OwnedBy(a, user, table) == \A i \in DOMAIN a : table[a[i]].user_id = user

Listed(a) == {a[i] : i \in DOMAIN a}

\* the table after the updates of a list were applied one after the other,
\* first to last
RECURSIVE InArrayOrder(_, _)
InArrayOrder(table, updates) ==
  IF updates = <<>> THEN table
  ELSE InArrayOrder(ApplyPosition(table, Head(updates)), Tail(updates))

\* the route has answered success for its request
Reordered == reorder.state = "done" /\ reorder.status = 200

\* C12: reorder.  For an array of distinct project identifiers owned by the
\* caller the route issues one position update per identifier, and afterwards
\* each listed project's position is its zero-based index in the array while
\* every project not listed is as it was.
C12_Reorder ==
  (/\ Reordered
   /\ Distinct(reorder.orderedIds)
   /\ OwnedBy(reorder.orderedIds, reorder.user, reorder.before)) =>
    /\ Len(reorder.updates) = Len(reorder.orderedIds)
    /\ \A i \in DOMAIN reorder.orderedIds :
         /\ reorder.updates[i].id = reorder.orderedIds[i]
         /\ dbProjects[reorder.orderedIds[i]].sort_order = i - 1
    /\ \A p \in ProjectIds \ Listed(reorder.orderedIds) :
         dbProjects[p] = reorder.before[p]

\* [C, A, B] was reordered: C is at 0, A at 1, B at 2
C12_Witness ==
  /\ Reordered
  /\ reorder.orderedIds = <<"C", "A", "B">>
  /\ dbProjects["C"].sort_order = 0
  /\ dbProjects["A"].sort_order = 1
  /\ dbProjects["B"].sort_order = 2

\* C13: for every array the route accepts, the stored positions after the
\* request are the same in whatever order the concurrently issued updates
\* complete: they are what applying the updates in array order gives.
C13_OrderIndependent ==
  Reordered => dbProjects = InArrayOrder(reorder.before, reorder.updates)

\* ------------------------------------------------ ordering and failures
\* request i was dispatched and its call has not completed
InFlight(i) == net[i].via = "fetch" /\ net[i].client = "waiting"

\* two requests for the same entity
SameTarget(i, j) ==
  net[i].endpoint = net[j].endpoint /\ TargetOf(net[i]) = TargetOf(net[j])

\* C14: writes to one key are strictly serialized: at no time are two
\* debounced writes for the same key in flight.
C14_Serialized ==
  \A i, j \in TimerWrites :
    (i # j /\ SameTarget(i, j)) => ~(InFlight(i) /\ InFlight(j))

\* the page has seen a debounced write fail
FailureSeen == \E w \in TimerWrites : SeenFailed(w)

\* a step that applies an edit: the store shows the edited values, the key's
\* pending record holds them and the key's one timer runs a full quiet period
EditTakesEffect ==
  Len(edits') = Len(edits) + 1 =>
    LET e    == edits'[Len(edits')]
        list == IF e.type = NoteType THEN notes' ELSE commands'
    IN /\ HasId(list, e.id)
       /\ \A f \in DOMAIN e.updates : ById(list, e.id)[f] = e.updates[f]
       /\ e.key \in DOMAIN pendingUpdates'
       /\ \A f \in DOMAIN e.updates :
            /\ f \in DOMAIN pendingUpdates'[e.key].updates
            /\ pendingUpdates'[e.key].updates[f] = e.updates[f]
       /\ Cardinality({t \in hostTimers' : t.key = e.key}) = 1
       /\ \A t \in hostTimers' : t.key = e.key => t.left = QuietPeriod

\* a step in which a due timer with a pending record runs (it is gone and no
\* edit replaced it): its write goes out
DueIsDispatched ==
  \A t \in hostTimers :
    (/\ t.left = 0 /\ t \notin hostTimers'
     /\ t.key \in DOMAIN pendingUpdates
     /\ edits' = edits) =>
      /\ Len(net') = Len(net) + 1
      /\ net'[Len(net')].method = "PATCH"
      /\ net'[Len(net')].via = "fetch"
      /\ net'[Len(net')].endpoint = EndpointOf(t.type)
      /\ TargetOf(net'[Len(net')]) = t.id
      /\ FieldsOf(net'[Len(net')]) = pendingUpdates[t.key].updates

\* every input of the card accepts an edit, and every due timer can run
EditsOpen ==
  /\ MayAct => \A el \in TextEls \cap Inputs : ENABLED EditText(el, "a")
  /\ \A t \in hostTimers : t.left = 0 => ENABLED TimerFire(t)

\* C15: a failed debounced write never blocks later edits.  Once a write has
\* failed, an edit of the same key or of another key is still accepted,
\* applied to the store and scheduled, and a due timer still dispatches its
\* write.
C15_FailureNeverBlocks ==
  /\ [](FailureSeen => EditsOpen)
  /\ [][FailureSeen => (EditTakesEffect /\ DueIsDispatched)]_vars

\* a write for the note failed and was notified; a later edit of the same
\* note is in the store and its own write has gone out
C15_Witness ==
  \E w, x \in TimerWrites :
    /\ net[w].endpoint = "notes" /\ SameTarget(w, x)
    /\ SeenFailed(w) /\ Reported(w)
    /\ w < x
    /\ net[x].nedits = 2 /\ net[w].nedits = 1
    /\ ById(notes, TargetOf(net[x])).content = "a"

\* ------------------------------------------------- immediate operations
\* a step that changes a note's tag
TagChanged ==
  /\ Len(edits') = Len(edits) + 1
  /\ "tag" \in DOMAIN edits'[Len(edits')].updates

\* the step issues a write, and leaves the debounce path alone
WriteNow ==
  /\ Len(net') = Len(net) + 1
  /\ pendingUpdates' = pendingUpdates
  /\ hostTimers' = hostTimers
  /\ debounceTimers' = debounceTimers

\* C16: a note tag change issues its network write at the moment of the
\* change: it does not go through the debounce path, does not wait for the
\* quiet period and is not merged into a pending debounced write.
C16_TagImmediate ==
  [][TagChanged =>
       /\ WriteNow
       /\ net'[Len(net')].method = "PATCH"
       /\ net'[Len(net')].endpoint = "notes"
       /\ FieldsOf(net'[Len(net')]) = edits'[Len(edits')].updates]_vars

Lists == {"notes", "commands", "links"}

\* the list of the store an endpoint stands for, after the step
StoreOfNext(endpoint) ==
  IF endpoint = "notes" THEN notes'
  ELSE IF endpoint = "commands" THEN commands' ELSE links'

\* the identifiers a step adds to, and removes from, a list of the store
Gained(e) == IdsOf(StoreOfNext(e)) \ IdsOf(StoreOf(e))
Lost(e)   == IdsOf(StoreOf(e)) \ IdsOf(StoreOfNext(e))

\* C17: structural operations (addNote, addCommand, addLink, deleteNote,
\* deleteCommand, deleteLink) change the store and dispatch their write in the
\* same step as the user action; no debounce timer or pending record is
\* read or changed by it.
C17_StructuralImmediate ==
  [][\A e \in Lists :
       /\ \A id \in Gained(e) :
            /\ WriteNow
            /\ net'[Len(net')].method = "POST"
            /\ net'[Len(net')].via = "fetch"
            /\ net'[Len(net')].endpoint = e
            /\ net'[Len(net')].body.id = id
       /\ \A id \in Lost(e) :
            /\ WriteNow
            /\ net'[Len(net')].method = "DELETE"
            /\ net'[Len(net')].via = "fetch"
            /\ net'[Len(net')].endpoint = e
            /\ DeletedId(net'[Len(net')]) = id]_vars

\* a note was deleted while an edit of it was still queued: the delete call
\* is out although the key's pending record and timer are still there
C17_Witness ==
  /\ \E d \in Deletes :
       /\ net[d].endpoint = "notes"
       /\ KeyOf(NoteType, DeletedId(net[d])) \in DOMAIN pendingUpdates
       /\ ~HasId(notes, DeletedId(net[d]))
  /\ hostTimers # {}

\* C18: a successful response to a create, delete or field-update call
\* leaves the store unchanged: nothing of the response is merged into it, so
\* an edit made while the request was under way is still what is shown.
C18_ResponseLeavesStore ==
  [][\A i \in DOMAIN net :
       (net[i].client = "waiting" /\ net'[i].client = "resolved"
        /\ net[i].served = "ok") =>
         /\ notes' = notes
         /\ commands' = commands
         /\ links' = links]_vars

\* a note was added and typed into, its create call was answered with
\* success, and the note shows the typed text, not the empty row created
C18_Witness ==
  \E c \in Creates :
    /\ net[c].endpoint = "notes"
    /\ net[c].served = "ok" /\ net[c].client = "resolved"
    /\ net[c].body.content = ""
    /\ HasId(notes, net[c].body.id)
    /\ ById(notes, net[c].body.id).content = "a"
    /\ KeyOf(NoteType, net[c].body.id) \in DOMAIN pendingUpdates

\* C19: every failed remote call (create, delete, field update), whether the
\* network was unreachable or the server returned a non-success status, is
\* notified to the user.
C19_EveryFailureNotified ==
  \A i \in DOMAIN net :
    (net[i].via = "fetch" /\ SeenFailed(i)) => Reported(i)

\* ---------------------------------------------------------------- toasts
OnScreen(id) == \E i \in DOMAIN toastList : toastList[i].id = id

\* a list with its i-th element taken out
RemoveAt(list, i) == SubSeq(list, 1, i - 1) \o SubSeq(list, i + 1, Len(list))

\* C20: every notification showToast puts on screen is removed again, by its
\* own timeout and with no user action, when its display period is over; and
\* a removal, by expiry or by the dismiss button, takes out that one
\* notification and leaves the others as they were.
C20_ToastsExpire ==
  /\ \A n \in 1..MaxToasts : OnScreen(RandomToken(n)) ~> ~OnScreen(RandomToken(n))
  /\ [](\A i \in DOMAIN toastList :
          \E t \in toastTimers : t.id = toastList[i].id /\ t.left <= DisplayPeriod)
  /\ [][toastList' # toastList =>
          \/ \E i \in DOMAIN toastList : toastList' = RemoveAt(toastList, i)
          \/ \E i \in DOMAIN toastList' : toastList = RemoveAt(toastList', i)]_vars

\* three toasts were shown; the second was dismissed by hand, the first has
\* expired, and the third is still on screen with time left
C20_Witness ==
  /\ toastsShown = 3
  /\ Len(toastList) = 1
  /\ toastList[1].id = RandomToken(3)
  /\ \E t \in toastTimers : t.id = RandomToken(2)
  /\ \A t \in toastTimers : t.id # RandomToken(1)
  /\ \E t \in toastTimers : t.id = RandomToken(3) /\ t.left > 0

\* ---- chat assistant
\* the step in which sendMessage handles an answer of the route
ChatHandled == chat.state = "answered" /\ chat'.state = "idle"

\* what the user did to a list since snap was taken is still so in after:
\* records added or edited since are in it, entities deleted since are not
Survives(now, snap, after) ==
  /\ \A i \in DOMAIN now : now[i] \notin Range(snap) => now[i] \in Range(after)
  /\ \A i \in DOMAIN snap : ~HasId(now, snap[i].id) => ~HasId(after, snap[i].id)

\* C21: an optimistic add, edit or delete applied while a request of the
\* chat assistant is under way is still present in the Entity Store after
\* the answer has been handled: handling the answer does not put a list
\* derived from the projects of the request in place of the store.
C21_StoreSurvivesChat ==
  [][ChatHandled =>
       /\ Survives(notes, CardOf(chat.projects).notes, notes')
       /\ Survives(commands, CardOf(chat.projects).commands, commands')
       /\ Survives(links, CardOf(chat.projects).links, links')]_vars

\* a step changes or removes the row p of projects
Touched(p) == p \notin DOMAIN dbProjects' \/ dbProjects'[p] # dbProjects[p]

\* C22: what a route writes to storage is scoped to the calling user: no
\* step of the chat route changes or deletes a row of projects whose owner
\* differs from the caller, whatever identifiers the request body supplies.
C22_RoutesScopedToCaller ==
  [][\A p \in DOMAIN dbProjects :
       Touched(p) => dbProjects[p].user_id = chat'.caller]_vars

\* ---- unload flush at the routes
\* the step in which the route handles the teardown-safe send i
BeaconServed(i) == i \in Beacons /\ net[i].served = "none" /\ net'[i].served # "none"

TableOf(endpoint) ==
  IF endpoint = "notes" THEN dbNotes
  ELSE IF endpoint = "commands" THEN dbCommands ELSE dbLinks
TableOfNext(endpoint) ==
  IF endpoint = "notes" THEN dbNotes'
  ELSE IF endpoint = "commands" THEN dbCommands' ELSE dbLinks'

\* C23: a pending edit flushed at unload (a POST whose body carries note_id
\* or command_id and the pending fields) is applied by the route as an
\* update of the existing entity the body names: no row is created, and the
\* named row holds the fields of the body afterwards.
C23_BeaconUpdates ==
  [][\A i \in DOMAIN net :
       BeaconServed(i) =>
         /\ DOMAIN dbNotes' = DOMAIN dbNotes
         /\ DOMAIN dbCommands' = DOMAIN dbCommands
         /\ TargetOf(net[i]) \in DOMAIN TableOf(net[i].endpoint) =>
              \A f \in DOMAIN FieldsOf(net[i]) :
                TableOfNext(net[i].endpoint)[TargetOf(net[i])][f] = FieldsOf(net[i])[f]]_vars

\* ---- scheduler keys
\* identifiers a key is built from: with one dash, with several, with none
KeyIds == Uuids \cup {<<"a", "-", "b", "-", "c">>, <<"7">>}

HasDash(id) == \E i \in 1..Len(id) : id[i] = "-"

\* C24: key round trip.  For every kind and every identifier, also one that
\* contains dashes, splitting the key 'kind-identifier' at its first dash
\* gives back the kind and the identifier; so every key of the scheduler
\* splits into the kind and identifier its timer holds, and every send of the
\* unload flush addresses the endpoint and entity of an edit.
C24_KeyRoundTrip ==
  /\ \A type \in {NoteType, CommandType} : \A id \in KeyIds :
       /\ KeyType(KeyOf(type, id)) = type
       /\ KeyId(KeyOf(type, id)) = id
  /\ \A key \in DOMAIN pendingUpdates :
       /\ KeyOf(KeyType(key), KeyId(key)) = key
       /\ KeyType(key) = pendingUpdates[key].type
  /\ \A t \in hostTimers : KeyType(t.key) = t.type /\ KeyId(t.key) = t.id
  /\ \A b \in Beacons : \E m \in DOMAIN edits : Addresses(net[b], edits[m])

\* the unload flush has sent the pending edits of a note and of a command,
\* both with an identifier that contains a dash
C24_Witness ==
  /\ unloaded
  /\ \E b, c \in Beacons :
       /\ net[b].endpoint = "notes" /\ HasDash(net[b].body.note_id)
       /\ net[c].endpoint = "commands" /\ HasDash(net[c].body.command_id)

\* ---- dispatch of the pending records
\* everything sent for a pending record: by a timer or by the unload flush
Sends == TimerWrites \cup Beacons

\* how many edits had been made when a send left (the unload flush sends
\* after the blur it causes, and nothing is edited after it)
SentAt(w) == IF net[w].via = "beacon" THEN Len(edits) ELSE net[w].nedits

\* the sends for the key of edit m that left after it
SendsAfter(m) == {w \in Sends : Addresses(net[w], edits[m]) /\ SentAt(w) >= m}

\* C25: exactly-once dispatch.  In every interleaving of edits, timer
\* expiries and the teardown hook each pending record is sent exactly once,
\* by its timer or by the unload flush: the latest edit of a key is either
\* still pending, with all the fields edited since the last send, or was
\* carried by one send and not both; and two sends for one key always have
\* an edit of that key between them.
C25_ExactlyOnce ==
  /\ \A m \in DOMAIN edits :
       NextEdit(m) = 0 =>
         IF edits[m].key \in DOMAIN pendingUpdates
           THEN /\ SendsAfter(m) = {}
                /\ pendingUpdates[edits[m].key].updates = LatestOf(Unsent(m))
           ELSE Cardinality(SendsAfter(m)) = 1
  /\ \A key \in DOMAIN pendingUpdates : \E m \in DOMAIN edits : edits[m].key = key
  /\ \A v, w \in Sends :
       (v < w /\ net[v].endpoint = net[w].endpoint /\ TargetOf(net[v]) = TargetOf(net[w])) =>
         \E m \in DOMAIN edits :
           Addresses(net[w], edits[m]) /\ SentAt(v) < m /\ m <= SentAt(w)

\* a key whose first record went out by its timer and whose second went out
\* by the unload flush, while another key's record went out by the flush only
C25_Witness ==
  /\ unloaded
  /\ \E v \in TimerWrites : \E w \in Beacons :
       /\ net[v].endpoint = net[w].endpoint
       /\ TargetOf(net[v]) = TargetOf(net[w])
  /\ Cardinality(Beacons) = 2

\* ---- convergence
\* every write sent for the key of edit m has been answered with success
AllCompleted(m) ==
  \A w \in Sends : Addresses(net[w], edits[m]) => net[w].served = "ok"

\* the store and the server agree on the field f of the entity of edit m
Agrees(m, f) ==
  LET list  == IF edits[m].type = NoteType THEN notes ELSE commands
      table == TableOf(EndpointOf(edits[m].type))
  IN /\ HasId(list, edits[m].id)
     /\ edits[m].id \in DOMAIN table
     /\ table[edits[m].id][f] = ById(list, edits[m].id)[f]

\* C26: field-edit convergence.  For every key, once no edit of it is
\* pending and every write sent for it has completed successfully, the
\* server holds for each edited field the value the Entity Store shows,
\* in whatever order the server handled the writes.
C26_FieldConvergence ==
  \A m \in DOMAIN edits :
    (edits[m].key \notin DOMAIN pendingUpdates /\ AllCompleted(m)) =>
      \A f \in DOMAIN edits[m].updates : Agrees(m, f)

\* the delete call d removes the entity the create call c made
Undoes(d, c) ==
  /\ c < d
  /\ net[c].endpoint = net[d].endpoint
  /\ DeletedId(net[d]) = net[c].body.id

\* C27: structural convergence.  When the user creates an entity and then
\* deletes it, once the create call and the delete call have both completed
\* the entity is absent from the server and from the Entity Store, in
\* whatever order the server handled the two.
C27_StructuralConvergence ==
  \A c \in Creates : \A d \in Deletes :
    (Undoes(d, c) /\ net[c].served = "ok" /\ net[d].served = "ok") =>
      /\ net[c].body.id \notin DOMAIN TableOf(net[c].endpoint)
      /\ ~HasId(StoreOf(net[c].endpoint), net[c].body.id)

\* ---- the temp-id card
\* the step in which the handler of call i runs on after its await
Settles(i, kind, state) ==
  /\ tCalls[i].kind = kind
  /\ tCalls[i].state = state
  /\ tCalls'[i].state = "done"

OtherList(type) == IF type = NoteType THEN "commands" ELSE "notes"

\* C28: in the temp-id card, when a delete call fails and the deletion is
\* rolled back, everything done to the project between the delete and the
\* failure response (notes or commands added, edited or deleted) is still in
\* the Entity Store after the rollback; only the deleted entity is restored.
C28_RollbackKeepsChanges ==
  [][\A i \in DOMAIN tCalls :
       Settles(i, "delete", "failed") =>
         LET c == tCalls[i] IN
           /\ Range(tProject'[ListOf(c.type)]) =
                Range(tProject[ListOf(c.type)])
                  \cup {ById(c.project[ListOf(c.type)], c.id)}
           /\ tProject'[OtherList(c.type)] = tProject[OtherList(c.type)]]_vars

\* the fields of an entity of the store, the identifier aside
Shows(list, id) == Rest(ById(tProject[list], id), "id")

\* the value v of field f of the entity id is on the server, or in a
\* pending record after the step
Reaches(type, id, f, v) ==
  \/ /\ id \in DOMAIN TableOfNext(EndpointOf(type))
     /\ TableOfNext(EndpointOf(type))[id][f] = v
  \/ /\ KeyOf(type, id) \in DOMAIN tPending'
     /\ f \in DOMAIN tPending'[KeyOf(type, id)].updates
     /\ tPending'[KeyOf(type, id)].updates[f] = v

\* C29: in the temp-id card, the field values the user gave a provisional
\* note or command before its create call succeeded are carried by the
\* entity in the Entity Store after the record of the server has taken the
\* place of the provisional one, and reach the server.
C29_ProvisionalEditsKept ==
  [][\A i \in DOMAIN tCalls :
       (Settles(i, "add", "ok") /\ HasId(tProject[ListOf(tCalls[i].type)], tCalls[i].id)) =>
         LET c    == tCalls[i]
             list == ListOf(c.type)
         IN /\ HasId(tProject'[list], c.data.id)
            /\ \A f \in DOMAIN Shows(list, c.id) :
                 /\ ById(tProject'[list], c.data.id)[f] = Shows(list, c.id)[f]
                 /\ Reaches(c.type, c.data.id, f, Shows(list, c.id)[f])]_vars

\* ---- the two maps of the scheduler
\* C30: in every reachable state the keys that hold a debounce timer are the
\* keys that hold a pending record: debouncedSync adds both, the timer
\* callback removes both before it sends, the unload flush empties both.  So
\* every live timeout belongs to a key with a pending record, and every
\* pending record has a live timeout.
C30_TimersMatchPending ==
  /\ DOMAIN debounceTimers = DOMAIN pendingUpdates
  /\ {t.key : t \in hostTimers} = DOMAIN pendingUpdates

\* one key's timer has fired and sent its record, another key still holds
\* its timer and its record
C30_Witness ==
  /\ pendingUpdates # Empty
  /\ \E w \in TimerWrites :
       KeyOf(IF net[w].endpoint = "notes" THEN NoteType ELSE CommandType,
             TargetOf(net[w])) \notin DOMAIN pendingUpdates
====
